---- MODULE Spec2Model ----
(***************************************************************************)
(* State-machine model of the SteamVR tracker of opentrack                 *)
(* (tracker-steamvr/steamvr.cpp): the process-wide runtime handle behind   *)
(* a recursive mutex, device enumeration, pose sampling, and the tracker   *)
(* object that binds to one device.                                        *)
(*                                                                         *)
(* Granularity.  A thread's position is a stack of frames, one per call    *)
(* that is in progress.  Every with_vr_lock call is four steps: acquire    *)
(* the mutex, vr_init(), the body (the lambda), release.  A body is one    *)
(* step: while it runs the mutex excludes every other caller, and the      *)
(* hardware service is read as one consistent frame.  The hardware is an   *)
(* input: a body that queries it reads any state it can be in, and keeps   *)
(* what it read in its frame (hwframe).  Between steps other threads may   *)
(* run and the process may exit.                                           *)
(*                                                                         *)
(* Strings are sequences of tokens; QString::arg is modelled by what it    *)
(* does (it replaces every occurrence of the lowest numbered place marker).*)
(* Angles are whole degrees: the matrices of the model have entries in     *)
(* -1..1, for which atan2 yields multiples of 45 degrees.                  *)
(*                                                                         *)
(* The last part models Shortcuts::reload and Shortcuts::receiver           *)
(* (logic/shortcuts.cpp, the branches compiled with _WIN32); it shares no   *)
(* state with the tracker.                                                  *)
(***************************************************************************)
EXTENDS Integers, Sequences, FiniteSets, TLC

VARIABLES
    t_static,      \* `static tt t` of device_list::vr_init, with its guard
    mtx,           \* device_list::mtx, a recursive mutex: owner and depth
    stack,         \* thread -> the frames of the calls it is in
    device_specs,  \* thread -> device_specs of the device_list it keeps
    pose,          \* thread -> the (ok, pose) that get_pose returned to it
    device_index,  \* steamvr::device_index
    warning,       \* the QMessageBox the last start_tracker showed
    data,          \* the caller's output array (TX, TY, TZ, Yaw, Pitch, Roll)
    proc,          \* the process: running, exiting (atexit handlers run), crashed
    atexit_hooks,  \* registered VR_Shutdown handlers that have not run yet
    released,      \* VR_Shutdown has run: the handle dangles
    n_init,        \* how often VR_Init ran
    n_atexit,      \* how often std::atexit(VR_Shutdown) ran
    n_shutdown,    \* how often VR_Shutdown ran
    uas,           \* a hardware call went through the handle after VR_Shutdown
    nullderef,     \* a hardware call went through a null handle
    center_ret,    \* what the last steamvr::center returned (<<>>: nothing yet)
    last_logged,   \* the condition once_only was last given the diagnostic for
    last_valid,    \* the pose of the last sample of get_pose was valid and connected
    keys,          \* Shortcuts::keys, the table of bindings
    keys_,         \* the argument of the last Shortcuts::reload
    received,      \* the last key event of Shortcuts::receiver and the calls made
    d              \* thread -> the list of the local device_list of its call

sessionVars == <<t_static, n_init, n_atexit>>
procVars    == <<proc, atexit_hooks, released, n_shutdown>>
ubVars      == <<uas, nullderef>>
bindVars    == <<device_index, warning>>
loggedVars  == <<center_ret, last_logged, last_valid>>
shortcutVars == <<keys, keys_, received>>
vars == <<t_static, mtx, stack, device_specs, pose, device_index, warning,
          data, proc, atexit_hooks, released, n_init, n_atexit, n_shutdown,
          uas, nullderef, center_ret, last_logged, last_valid, keys, keys_,
          received, d>>

----------------------------------------------------------------------------
(* Bounds and constants *)

\* vr::k_unMaxTrackedDeviceCount, the number of hardware slots
max_devices == 2

\* The counters n_init, n_atexit, n_shutdown saturate here
CounterCap == 3

\* steamvr::data: static constexpr int c
c == 10

Slots   == 0 .. (max_devices - 1)
Threads == {"ui", "poll"}
None    == "none"
Null    == "null"
Handle  == "IVRSystem"

Min(a, b) == IF a < b THEN a ELSE b
Bump(n)   == Min(n + 1, CounterCap)

----------------------------------------------------------------------------
(* Strings: QString::arg and device_spec::to_string *)

\* The lowest numbered place marker that occurs in s, or None
LowestMarker(s) ==
    LET occurs(m) == \E i \in 1 .. Len(s) : s[i] = m
    IN  IF occurs("%1") THEN "%1"
        ELSE IF occurs("%2") THEN "%2"
        ELSE IF occurs("%3") THEN "%3"
        ELSE None

RECURSIVE Subst(_, _, _)
Subst(s, m, a) ==
    IF s = <<>> THEN <<>>
    ELSE (IF Head(s) = m THEN a ELSE <<Head(s)>>) \o Subst(Tail(s), m, a)

\* QString::arg(a): every occurrence of the lowest numbered marker becomes a
arg(s, a) ==
    LET m == LowestMarker(s)
    IN  IF m = None THEN s ELSE Subst(s, m, a)

\* QStringLiteral("<%1> %2 [%3]").arg(type).arg(model).arg(serial): s1 and s2
\* are the strings after the first and the second arg
to_string(spec) ==
    CHOOSE r \in
        {arg(s2, spec.serial) :
            s2 \in {arg(s1, spec.model) :
                s1 \in {arg(<<"<", "%1", ">", " ", "%2", " ", "[", "%3", "]">>,
                            spec.type)}}} : TRUE

----------------------------------------------------------------------------
(* Poses *)

MatZero == << <<0, 0, 0, 0>>, <<0, 0, 0, 0>>, <<0, 0, 0, 0>> >>
\* no rotation, translation (1, 2, 3)
MatA    == << <<1, 0, 0, 1>>, <<0, 1, 0, 2>>, <<0, 0, 1, 3>> >>
\* the axes permuted cyclically (pitch and roll a quarter turn), translation (-1, 1, 2)
MatB    == << <<0, 0, 1, -1>>, <<1, 0, 0, 1>>, <<0, 1, 0, 2>> >>

\* result.m[r][k]
M(m, r, k) == m[r + 1][k + 1]

\* atan2 in whole degrees, for arguments in -1 .. 1
atan2(y, x) ==
    CASE y = 0  /\ x >= 0 -> 0
      [] y = 0  /\ x < 0  -> 180
      [] y > 0  /\ x = 0  -> 90
      [] y < 0  /\ x = 0  -> -90
      [] y > 0  /\ x > 0  -> 45
      [] y > 0  /\ x < 0  -> 135
      [] y < 0  /\ x > 0  -> -45
      [] y < 0  /\ x < 0  -> -135

\* sqrt of a perfect square, the only sums of squares the matrices of the model give
sqrt(n) == CHOOSE r \in 0 .. n : r * r = n

matrix_to_euler(m) ==
    [yaw   |-> atan2(-M(m, 2, 0),
                     sqrt(M(m, 2, 1) * M(m, 2, 1) + M(m, 2, 2) * M(m, 2, 2))),
     pitch |-> atan2(M(m, 2, 1), M(m, 2, 2)),
     roll  |-> atan2(M(m, 1, 0), M(m, 0, 0))]

\* What steamvr::data stores for a valid pose (r2d applied: whole degrees)
data_of(m) ==
    LET eu == matrix_to_euler(m)
    IN  [TX |-> -M(m, 0, 3) * c, TY |-> M(m, 1, 3) * c, TZ |-> M(m, 2, 3) * c,
         Yaw |-> eu.yaw, Pitch |-> eu.pitch, Roll |-> eu.roll]

----------------------------------------------------------------------------
(* The hardware service *)

S1 == <<"LHR-1">>
S2 == <<"LHR-2">>
M1 == <<"Vive">>
\* a model name that holds a place marker
M2 == <<"%1">>

Profile(class, connected, valid, serial, model, mat) ==
    [class |-> class, connected |-> connected, valid |-> valid,
     serial |-> serial, model |-> model, mat |-> mat]

\* What a slot can report.  An empty serial or model is a failed fetch
\* (GetStringTrackedDeviceProperty returns length 0).
P_empty    == Profile("Invalid", FALSE, FALSE, <<>>, <<>>, MatZero)
P_ghost    == Profile("Invalid", TRUE, TRUE, S1, M1, MatA)
P_base     == Profile("TrackingReference", TRUE, TRUE, S2, M1, MatA)
P_hmd      == Profile("HMD", TRUE, TRUE, S1, M1, MatA)
P_hmd_off  == Profile("HMD", FALSE, TRUE, S1, M1, MatA)
P_hmd_lost == Profile("HMD", TRUE, FALSE, S1, M1, MatB)
P_ctrl     == Profile("Controller", TRUE, TRUE, S2, M1, MatB)
P_noserial == Profile("Controller", TRUE, TRUE, <<>>, M1, MatA)
P_nomodel  == Profile("HMD", TRUE, TRUE, S1, <<>>, MatA)
P_tracker  == Profile("GenericTracker", TRUE, TRUE, S2, M2, MatB)

Profiles == {P_empty, P_ghost, P_base, P_hmd, P_hmd_off, P_hmd_lost, P_ctrl,
             P_noserial, P_nomodel, P_tracker}

\* The hardware states of the specification of the threads and of process exit
FewProfiles == {P_empty, P_hmd}

\* The hardware states of the specification of the fair threads
LiveProfiles == {P_empty, P_hmd}

\* vr::VR_Init: the handle and the error it stores
InitOutcomes ==
    {[v |-> Handle, e |-> "VRInitError_None"],
     [v |-> Null, e |-> "VRInitError_Init_InstallationNotFound"],
     [v |-> Null, e |-> "VRInitError_Init_HmdNotFound"]}

----------------------------------------------------------------------------
(* device_list::fill_device_specs *)

type_of(class) ==
    CASE class = "HMD" -> <<"HMD">>
      [] class = "Controller" -> <<"Controller">>
      [] OTHER -> <<"Unknown">>

\* The mutant of SlotListed: the connectivity flag is not looked at
SlotListed_no_connectivity(p) ==
    /\ ~(p.class = "Invalid" \/ p.class = "TrackingReference")
    /\ Len(p.serial) # 0
    /\ Len(p.model) # 0

\* The loop body's four `continue`s: the slot reaches list.push_back
SlotListed(p) ==
    /\ ~(p.class = "Invalid" \/ p.class = "TrackingReference")
    /\ p.connected
    /\ Len(p.serial) # 0
    /\ Len(p.model) # 0

\* The mutant of device_spec: the slot is stored counted from one
device_spec_one_based(k, p) ==
    [k |-> k + 1, type |-> type_of(p.class), model |-> p.model, serial |-> p.serial,
     pose |-> [valid |-> p.valid, connected |-> p.connected, mat |-> p.mat]]

\* device_spec dev of the loop body: serial, type, model, pose, k
device_spec(k, p) ==
    [k |-> k, type |-> type_of(p.class), model |-> p.model, serial |-> p.serial,
     pose |-> [valid |-> p.valid, connected |-> p.connected, mat |-> p.mat]]

RECURSIVE fill_from(_, _)
fill_from(h, k) ==
    IF k >= max_devices THEN <<>>
    ELSE IF SlotListed(h[k]) THEN <<device_spec(k, h[k])>> \o fill_from(h, k + 1)
    ELSE fill_from(h, k + 1)

\* list.clear()
clear(list) == SubSeq(list, 1, 0)

\* The mutant of fill_device_specs: the list is not cleared first
fill_device_specs_no_clear(list, v, h) ==
    list \o (IF v # Null THEN fill_from(h, 0) ELSE <<>>)

\* The lambda of fill_device_specs on the list it is given: list.clear(),
\* then the loop if (v)
fill_device_specs(list, v, h) ==
    clear(list) \o (IF v # Null THEN fill_from(h, 0) ELSE <<>>)

----------------------------------------------------------------------------
(* steamvr::start_tracker: the search for the device *)

RECURSIVE select_from(_, _, _)
select_from(specs, serial, i) ==
    IF i > Len(specs) THEN -1
    ELSE IF serial = <<>> \/ serial = to_string(specs[i]) THEN specs[i].k
    ELSE select_from(specs, serial, i + 1)

\* The mutant of select_device: the position in the list is stored
select_device_position(specs, serial) ==
    LET hit == {i \in 1 .. Len(specs) :
                    serial = <<>> \/ serial = to_string(specs[i])}
    IN  IF hit = {} THEN -1 ELSE (CHOOSE i \in hit : \A j \in hit : i <= j) - 1

\* device_index = -1; for (spec : specs) if (serial == "" || serial ==
\* spec.to_string()) { device_index = int(spec.k); break; }
select_device(specs, serial) == select_from(specs, serial, 1)

\* The values of the setting s.device_serial that start_tracker is tried with
SerialInputs ==
    {<<>>,
     to_string(device_spec(0, P_hmd)),
     to_string(device_spec(0, P_ctrl)),
     to_string(device_spec(0, P_tracker)),
     <<"<", "Unknown", ">", " ", "%1", " ", "[", "LHR-2", "]">>}

\* The values of the setting in the specification of the threads
FewSerials == {<<>>, to_string(device_spec(0, P_hmd))}

\* The value of the setting in the specification of the fair threads
LiveSerials == {<<>>}

----------------------------------------------------------------------------
(* Frames *)

\* The local `serial` of start_tracker before the setting is read
Unread == <<"(unread)">>

\* fn, pos: the function and the place in it; v, e: what vr_init() returned;
\* k: the argument of get_pose; serial: the local of start_tracker;
\* hwframe: what the body read from the hardware
Frame(fn, pos, k) ==
    [fn |-> fn, pos |-> pos, v |-> Null, e |-> None, k |-> k,
     serial |-> Unread, hwframe |-> [read |-> FALSE]]

Idle(t)    == stack[t] = <<>>
Top(t)     == stack[t][Len(stack[t])]
At(t, fn, pos) == ~Idle(t) /\ Top(t).fn = fn /\ Top(t).pos = pos
AtPos(t, pos)  == ~Idle(t) /\ Top(t).pos = pos

Replaced(t, f) == [stack EXCEPT ![t] = [@ EXCEPT ![Len(@)] = f]]
Moved(t, pos)  == Replaced(t, [Top(t) EXCEPT !.pos = pos])
Popped(t)      == [stack EXCEPT ![t] = SubSeq(@, 1, Len(@) - 1)]

Alive == proc \in {"running", "exiting"}

\* The tracker object is used by one caller at a time (the host calls
\* start_tracker, data and center of one tracker one after the other)
BindingFns == {"start", "data", "center"}
BindingFree ==
    \A u \in Threads : IF Idle(u) THEN TRUE ELSE stack[u][1].fn \notin BindingFns

NoPose == [ok |-> FALSE, mat |-> MatZero]

\* A call through a handle that VR_Shutdown has released
Dangling(v) == v # Null /\ released

----------------------------------------------------------------------------
(* Initial state *)

InitState ==
    /\ data \in {[TX |-> 7, TY |-> 7, TZ |-> 7, Yaw |-> 7, Pitch |-> 7, Roll |-> 7]}
    /\ t_static = [tried |-> FALSE, v |-> Null, e |-> None]
    /\ mtx = [owner |-> None, depth |-> 0]
    /\ stack = [t \in Threads |-> <<>>]
    /\ device_specs = [t \in Threads |-> <<>>]
    /\ d = [t \in Threads |-> <<>>]
    /\ pose = [t \in Threads |-> NoPose]
    /\ device_index = -1
    /\ warning = None
    /\ proc = "running"
    /\ atexit_hooks = 0
    /\ released = FALSE
    /\ n_init = 0
    /\ n_atexit = 0
    /\ n_shutdown = 0
    /\ uas = FALSE
    /\ nullderef = FALSE
    /\ center_ret = <<>>
    /\ last_logged = <<>>
    /\ last_valid = FALSE
    /\ keys = <<>>
    /\ keys_ = <<>>
    /\ received = [given |-> FALSE]

----------------------------------------------------------------------------
(* with_vr_lock: QMutexLocker, vr_init(), fun(v, e), unlock *)

\* The mutant of MayLock: the mutex excludes nobody
MayLock_always(t) == TRUE

\* QMutex::Recursive: free, or held by the caller
MayLock(t) == mtx.owner = None \/ mtx.owner = t

with_vr_lock_acquire(t) ==
    /\ Alive
    /\ AtPos(t, "lock")
    /\ MayLock(t)
    /\ mtx' = [owner |-> t, depth |-> mtx.depth + 1]
    /\ stack' = Moved(t, "init")
    /\ UNCHANGED <<d, shortcutVars, loggedVars, device_specs, pose, data,
                   sessionVars, procVars, ubVars, bindVars>>

\* device_list::vr_init_ on the outcome o of vr::VR_Init: the new static, and
\* whether VR_Init and std::atexit ran
vr_init_(o) ==
    [t |-> [tried |-> TRUE, v |-> o.v, e |-> o.e],
     inits |-> 1,
     hooks |-> IF o.v # Null THEN 1 ELSE 0]

\* The mutant of vr_init: no static, every call initialises
vr_init_every_call(o) == vr_init_(o)

\* The mutant of vr_init: a failure is not cached, the next call tries again
vr_init_retry_failure(o) ==
    IF t_static.tried /\ t_static.v # Null
    THEN [t |-> t_static, inits |-> 0, hooks |-> 0]
    ELSE vr_init_(o)

\* The mutant of vr_init: the shutdown hook is registered whatever VR_Init gave
vr_init_always_hook(o) ==
    IF t_static.tried
    THEN [t |-> t_static, inits |-> 0, hooks |-> 0]
    ELSE [vr_init_(o) EXCEPT !.hooks = 1]

\* device_list::vr_init: static tt t = vr_init_(); return t;
vr_init(o) ==
    IF t_static.tried
    THEN [t |-> t_static, inits |-> 0, hooks |-> 0]
    ELSE vr_init_(o)

with_vr_lock_init(t) ==
    /\ Alive
    /\ AtPos(t, "init")
    /\ \E o \in InitOutcomes :
         LET r == vr_init(o)
         IN  /\ t_static' = r.t
             /\ n_init' = IF r.inits = 1 THEN Bump(n_init) ELSE n_init
             /\ n_atexit' = IF r.hooks = 1 THEN Bump(n_atexit) ELSE n_atexit
             /\ atexit_hooks' = IF r.hooks = 1 THEN Bump(atexit_hooks)
                                ELSE atexit_hooks
             /\ stack' = Replaced(t, [Top(t) EXCEPT !.pos = "body",
                                                    !.v = r.t.v, !.e = r.t.e])
    /\ UNCHANGED <<d, shortcutVars, loggedVars, mtx, device_specs, pose, data, proc,
                   released, n_shutdown, ubVars,
                   bindVars>>

\* ~QMutexLocker, and the return to the caller
with_vr_lock_release(t) ==
    /\ Alive
    /\ AtPos(t, "unlock")
    /\ mtx' = IF mtx.depth = 1 THEN [owner |-> None, depth |-> 0]
              ELSE [mtx EXCEPT !.depth = @ - 1]
    \* center() goes on to its `return true`, every other caller is done
    /\ stack' = IF Top(t).fn = "center" THEN Moved(t, "return") ELSE Popped(t)
    \* the lambda of start_tracker returns: its local `device_list d` is gone
    /\ d' = IF Top(t).fn = "start" THEN [d EXCEPT ![t] = <<>>] ELSE d
    /\ UNCHANGED <<shortcutVars, loggedVars, device_specs, pose, data,
                   sessionVars, procVars, ubVars, bindVars>>

----------------------------------------------------------------------------
(* Undefined behaviour: a call through a released or a null handle either   *)
(* crashes the process or returns what any hardware state would give        *)

Outcomes(bad) == IF bad THEN {"crash", "garbage"} ELSE {"ok"}

----------------------------------------------------------------------------
(* device_list::device_list, refresh_device_list, fill_device_specs *)

\* steamvr_dialog::steamvr_dialog up to `device_list list`: the constructor
\* of the local refreshes it
device_list_new(t) ==
    /\ Alive
    /\ Idle(t)
    /\ stack' = [stack EXCEPT ![t] = <<Frame("dialog", "items", -1),
                                       Frame("fill", "lock", -1)>>]
    /\ UNCHANGED <<d, shortcutVars, loggedVars, mtx, device_specs, pose, data,
                   sessionVars, procVars, ubVars, bindVars>>

\* What the lambda has read of the hardware state h: nothing behind if (v)
HwRead(v, h) ==
    IF v = Null THEN [read |-> FALSE] ELSE [read |-> TRUE, slots |-> h]

\* The owner of a device_list calls refresh_device_list() on it again
refresh_device_list(t) ==
    /\ Alive
    /\ Idle(t)
    /\ stack' = [stack EXCEPT ![t] = <<Frame("refresh", "lock", -1)>>]
    /\ UNCHANGED <<d, shortcutVars, loggedVars, mtx, device_specs, pose, data,
                   sessionVars,
                   procVars, ubVars, bindVars>>

\* The lambda of fill_device_specs, on the hardware state h it finds
fill_device_specs_body(t, P) ==
    /\ Alive
    /\ At(t, "fill", "body") \/ At(t, "refresh", "body")
    /\ LET v == Top(t).v
       IN  \E u \in Outcomes(Dangling(v)) :
           \E h \in [Slots -> P] :
             /\ uas' = (uas \/ Dangling(v))
             /\ IF u = "crash"
                THEN proc' = "crashed" /\ UNCHANGED <<stack, device_specs, d>>
                ELSE /\ proc' = proc
                     \* the list of the object the call is made on: a local
                     \* under construction, or the list the caller keeps
                     /\ IF Top(t).fn = "fill"
                        THEN /\ d' = [d EXCEPT ![t] =
                                         fill_device_specs(d[t], v, h)]
                             /\ device_specs' = device_specs
                        ELSE /\ device_specs' =
                                    [device_specs EXCEPT ![t] =
                                        fill_device_specs(device_specs[t], v, h)]
                             /\ d' = d
                     /\ stack' = Replaced(t,
                            [Top(t) EXCEPT !.pos = "unlock",
                                           !.hwframe = HwRead(v, h)])
    /\ UNCHANGED <<shortcutVars, loggedVars, mtx, pose, data, sessionVars,
                   atexit_hooks, released,
                   n_shutdown, nullderef, bindVars>>

\* steamvr_dialog::steamvr_dialog after `device_list list`: the devices are
\* added to the combo box and the constructor returns, its local is gone
steamvr_dialog_return(t) ==
    /\ Alive
    /\ At(t, "dialog", "items")
    /\ d' = [d EXCEPT ![t] = <<>>]
    /\ stack' = Popped(t)
    /\ UNCHANGED <<shortcutVars, loggedVars, mtx, device_specs, pose, data,
                   sessionVars, procVars, ubVars, bindVars>>

----------------------------------------------------------------------------
(* device_list::get_pose *)

\* The mutant of get_pose_result: the connectivity flag is not looked at
get_pose_result_valid_only(p) ==
    IF p.valid THEN [ok |-> TRUE, mat |-> p.mat] ELSE NoPose

\* if (pose.bPoseIsValid && pose.bDeviceIsConnected) return (true, poses[k])
get_pose_result(p) ==
    IF p.valid /\ p.connected THEN [ok |-> TRUE, mat |-> p.mat] ELSE NoPose

\* The indexes get_pose is called with from outside the tracker
SampleIndexes == -1 .. max_devices

\* Any caller calls the static device_list::get_pose(k)
get_pose_call(t) ==
    /\ Alive
    /\ Idle(t)
    /\ \E k \in SampleIndexes :
         stack' = [stack EXCEPT ![t] = <<Frame("get_pose", "entry", k)>>]
    /\ UNCHANGED <<d, shortcutVars, loggedVars, mtx, device_specs, pose, data,
                   sessionVars, procVars, ubVars,
                   bindVars>>

\* The mutant of get_pose_in_range: only the upper limit is tested
get_pose_in_range_upper_only(k) == k < max_devices

\* if (k < 0 || !(k < max_devices)) return maybe_pose(false, pose_t{})
get_pose_in_range(k) == ~(k < 0 \/ ~(k < max_devices))

\* get_pose up to with_vr_lock: out of range it returns at once
get_pose_entry(t) ==
    /\ Alive
    /\ At(t, "get_pose", "entry")
    /\ IF get_pose_in_range(Top(t).k)
       THEN stack' = Moved(t, "lock") /\ pose' = pose
       ELSE stack' = Popped(t) /\ pose' = [pose EXCEPT ![t] = NoPose]
    /\ UNCHANGED <<d, shortcutVars, loggedVars, mtx, device_specs, data,
                   sessionVars, procVars, ubVars, bindVars>>

\* The else branch of get_pose: the diagnostic is handed to once_only
get_pose_diagnoses(p) == ~(p.valid /\ p.connected)

\* What the diagnostic reports: k, bPoseIsValid, bDeviceIsConnected
condition(k, p) == <<k, p.valid, p.connected>>

\* No condition: the diagnostic was not handed to once_only yet
NoCondition == <<>>

\* once_only: the diagnostic is emitted if its condition is not the one it
\* was last emitted for, which is then remembered
once_only(last, cond) == [emit |-> cond # last, last |-> cond]

\* The two branches of get_pose for the pose p of slot k: the valid branch
\* returns at once and leaves what once_only remembers as it is
throttle(last, k, p) ==
    IF get_pose_diagnoses(p) THEN once_only(last, condition(k, p))
    ELSE [emit |-> FALSE, last |-> last]

\* poses[k]: the pose_t of a slot in the state q (flags and matrix)
pose_t(q) == [valid |-> q.valid, connected |-> q.connected, mat |-> q.mat]

\* The lambda of get_pose, on what the hardware reports for slot k
get_pose_body(t, P) ==
    /\ Alive
    /\ At(t, "get_pose", "body")
    /\ LET v == Top(t).v
           bad == v = Null \/ Dangling(v)
       IN  \E u \in Outcomes(bad) :
           \E p \in {pose_t(q) : q \in P} :
             /\ uas' = (uas \/ Dangling(v))
             /\ nullderef' = (nullderef \/ v = Null)
             /\ IF u = "crash"
                THEN /\ proc' = "crashed"
                     /\ UNCHANGED <<d, stack, pose, last_logged, last_valid>>
                ELSE LET th == throttle(last_logged, Top(t).k, p)
                     IN  /\ proc' = proc
                         /\ pose' = [pose EXCEPT ![t] = get_pose_result(p)]
                         /\ last_logged' = th.last
                         /\ last_valid' = ~get_pose_diagnoses(p)
                         /\ stack' = Replaced(t,
                                [Top(t) EXCEPT !.pos = "unlock",
                                               !.hwframe = [read |-> TRUE, pose |-> p,
                                                            logged |-> th.emit]])
    /\ UNCHANGED <<d, shortcutVars, center_ret, mtx, device_specs, data,
                   sessionVars, atexit_hooks, released,
                   n_shutdown, bindVars>>

----------------------------------------------------------------------------
(* steamvr::steamvr, start_tracker *)

\* A new tracker object: device_index(-1), no message shown
steamvr_new ==
    /\ Alive
    /\ BindingFree
    /\ ~(device_index = -1 /\ warning = None)
    /\ device_index' = -1
    /\ warning' = None
    /\ UNCHANGED <<d, shortcutVars, loggedVars, mtx, stack, device_specs, pose,
                   data, sessionVars, procVars, ubVars>>

start_tracker_call(t) ==
    /\ Alive
    /\ Idle(t)
    /\ BindingFree
    /\ stack' = [stack EXCEPT ![t] = <<Frame("start", "lock", -1)>>]
    /\ UNCHANGED <<d, shortcutVars, loggedVars, mtx, device_specs, pose, data,
                   sessionVars, procVars, ubVars, bindVars>>

\* The lambda of start_tracker up to `device_list d`: the null handle is
\* reported with strerror(e), and nothing else is done; otherwise the
\* setting s.device_serial is read (any of S) and a device_list is made
start_tracker_body(t, S) ==
    /\ Alive
    /\ At(t, "start", "body")
    /\ IF Top(t).v = Null
       THEN /\ warning' = Top(t).e
            /\ stack' = Moved(t, "box")
       ELSE /\ warning' = warning
            /\ \E s \in S :
                 stack' = [stack EXCEPT ![t] =
                             Append([@ EXCEPT ![Len(@)].pos = "select",
                                              ![Len(@)].serial = s],
                                    Frame("fill", "lock", -1))]
    /\ UNCHANGED <<d, shortcutVars, loggedVars, mtx, device_specs, pose, data,
                   device_index, sessionVars, procVars,
                   ubVars>>

\* The mutant of start_tracker_result: the index is reset before the list is
\* looked at, and the position in the list is stored
start_tracker_result_position(specs, serial, idx) ==
    IF Len(specs) = 0
    THEN [device_index |-> idx, warning |-> "No HMD connected"]
    ELSE LET i == select_device_position(specs, serial)
         IN  [device_index |-> i,
              warning |-> IF i = -1 THEN "Can't find device with that serial"
                          ELSE None]

\* The lambda of start_tracker after `device_list d`: what it leaves in
\* device_index, and the message it shows (None: no message)
start_tracker_result(specs, serial, idx) ==
    IF Len(specs) = 0
    THEN [device_index |-> idx, warning |-> "No HMD connected"]
    ELSE LET i == select_device(specs, serial)
         IN  [device_index |-> i,
              warning |-> IF i = -1 THEN "Can't find device with that serial"
                          ELSE None]

start_tracker_select(t) ==
    /\ Alive
    /\ At(t, "start", "select")
    /\ LET r == start_tracker_result(d[t], Top(t).serial,
                                     device_index)
       IN  /\ device_index' = r.device_index
           /\ warning' = r.warning
           /\ stack' = Moved(t, IF r.warning = None THEN "unlock" ELSE "box")
    /\ UNCHANGED <<d, shortcutVars, loggedVars, mtx, device_specs, pose, data,
                   sessionVars, procVars, ubVars>>

\* QMessageBox::warning is modal: it returns, inside the lambda and so with
\* the mutex held, when the user has closed the box
QMessageBox_warning(t) ==
    /\ Alive
    /\ At(t, "start", "box")
    /\ stack' = Moved(t, "unlock")
    /\ UNCHANGED <<d, shortcutVars, loggedVars, mtx, device_specs, pose, data,
                   sessionVars, procVars, ubVars, bindVars>>

----------------------------------------------------------------------------
(* steamvr::data *)

data_call(t) ==
    /\ Alive
    /\ Idle(t)
    /\ BindingFree
    /\ stack' = [stack EXCEPT ![t] = <<Frame("data", "entry", -1)>>]
    /\ UNCHANGED <<d, shortcutVars, loggedVars, mtx, device_specs, pose, data,
                   sessionVars, procVars, ubVars, bindVars>>

\* if (device_index != -1)
data_samples(idx) == idx # -1

\* data() up to the call of get_pose
data_entry(t) ==
    /\ Alive
    /\ At(t, "data", "entry")
    /\ IF ~data_samples(device_index)
       THEN stack' = Popped(t)
       ELSE stack' = [stack EXCEPT ![t] =
                        Append([@ EXCEPT ![Len(@)].pos = "write"],
                               Frame("get_pose", "entry", device_index))]
    /\ pose' = pose
    /\ UNCHANGED <<d, shortcutVars, loggedVars, mtx, device_specs, data,
                   sessionVars, procVars, ubVars, bindVars>>

\* if (ok) { data[TX] = ...; ...; data[Roll] *= r2d; }
data_write(t) ==
    /\ Alive
    /\ At(t, "data", "write")
    /\ data' = IF pose[t].ok THEN data_of(pose[t].mat) ELSE data
    /\ pose' = [pose EXCEPT ![t] = NoPose]
    /\ stack' = Popped(t)
    /\ UNCHANGED <<d, shortcutVars, loggedVars, mtx, device_specs, sessionVars,
                   procVars, ubVars, bindVars>>

----------------------------------------------------------------------------
(* steamvr::center *)

center_call(t) ==
    /\ Alive
    /\ Idle(t)
    /\ BindingFree
    /\ stack' = [stack EXCEPT ![t] = <<Frame("center", "lock", -1)>>]
    /\ UNCHANGED <<d, shortcutVars, loggedVars, mtx, device_specs, pose, data,
                   sessionVars, procVars, ubVars, bindVars>>

\* The mutant of center_issues: the handle is not tested
center_issues_always(v) == TRUE

\* if (v): whether v->ResetSeatedZeroPose() is called
center_issues(v) == v # Null

\* The lambda of center; hwframe.read records that the command was issued
center_body(t) ==
    /\ Alive
    /\ At(t, "center", "body")
    /\ LET v == Top(t).v
           issued == center_issues(v)
       IN  \E u \in Outcomes(issued /\ (v = Null \/ Dangling(v))) :
             /\ uas' = (uas \/ (issued /\ Dangling(v)))
             /\ nullderef' = (nullderef \/ (issued /\ v = Null))
             /\ IF u = "crash"
                THEN proc' = "crashed" /\ stack' = stack
                ELSE /\ proc' = proc
                     /\ stack' = Replaced(t, [Top(t) EXCEPT !.pos = "unlock",
                                                            !.hwframe = [read |-> issued]])
    /\ UNCHANGED <<d, shortcutVars, loggedVars, mtx, device_specs, pose, data,
                   sessionVars, atexit_hooks,
                   released, n_shutdown, bindVars>>

\* return true;
center_result == TRUE

\* center() returns, the mutex released
center_return(t) ==
    /\ Alive
    /\ At(t, "center", "return")
    /\ center_ret' = <<center_result>>
    /\ stack' = Popped(t)
    /\ UNCHANGED <<d, shortcutVars, last_logged, last_valid, mtx, device_specs,
                   pose, data,
                   sessionVars, procVars, ubVars, bindVars>>

----------------------------------------------------------------------------
(* Process exit *)

\* exit(): from here on the atexit handlers run, beside the other threads.
\* The end of the process is the behaviour in which no further step is taken.
ExitBegin ==
    /\ proc = "running"
    /\ proc' = "exiting"
    /\ UNCHANGED <<d, shortcutVars, loggedVars, mtx, stack, device_specs, pose,
                   data, sessionVars, atexit_hooks,
                   released, n_shutdown, ubVars, bindVars>>

\* A registered handler runs: vr::VR_Shutdown(), which takes no lock
RunAtExit ==
    /\ proc = "exiting"
    /\ atexit_hooks > 0
    /\ atexit_hooks' = atexit_hooks - 1
    /\ released' = TRUE
    /\ n_shutdown' = Bump(n_shutdown)
    /\ UNCHANGED <<d, shortcutVars, loggedVars, mtx, stack, device_specs, pose,
                   data, sessionVars, proc, ubVars,
                   bindVars>>

----------------------------------------------------------------------------
(* Shortcuts (logic/shortcuts.cpp), the branches compiled with _WIN32 *)

\* The longest list of keys that reload is given
MaxKeys == 2

\* k.button: a Qt key or joystick button code with its modifier bits
Button(code, ctrl, alt, shift) ==
    [code |-> code, ctrl |-> ctrl, alt |-> alt, shift |-> shift]

NoButton == Button(0, FALSE, FALSE, FALSE)

\* key_opts: guid and button of a joystick binding, keycode of a keyboard one
O_none  == [guid |-> "", button |-> NoButton, keycode |-> ""]
O_keyA  == [guid |-> "", button |-> NoButton, keycode |-> "A"]
O_ctrlA == [guid |-> "", button |-> NoButton, keycode |-> "Ctrl+A"]
\* a joystick button; the keycode left over from an earlier binding is unused
O_joy   == [guid |-> "joy", button |-> Button(30, TRUE, FALSE, FALSE),
            keycode |-> "A"]

\* The entries (key_opts, fun, held) that the lists given to reload are made of
KeyEntries ==
    {[opts |-> O_keyA, fun |-> "f", held |-> FALSE],
     [opts |-> O_keyA, fun |-> "g", held |-> TRUE],
     [opts |-> O_ctrlA, fun |-> "h", held |-> FALSE],
     [opts |-> O_joy, fun |-> "f", held |-> TRUE],
     [opts |-> O_none, fun |-> "g", held |-> FALSE]}

\* The lists of at most MaxKeys entries
KeyLists == UNION {[1 .. n -> KeyEntries] : n \in 0 .. MaxKeys}

\* QKeySequence(Qt::Key_unknown), QKeySequence::fromString(k.keycode)
key_sequence(keycode) == IF keycode = "" THEN "Key_unknown" ELSE keycode

\* win_key::from_qt(code, idx, mods) for the key names of the model
from_qt(code) ==
    CASE code = "A" -> [idx |-> 30, ctrl |-> FALSE, alt |-> FALSE, shift |-> FALSE]
      [] code = "Ctrl+A" -> [idx |-> 30, ctrl |-> TRUE, alt |-> FALSE, shift |-> FALSE]
      [] OTHER -> [idx |-> 0, ctrl |-> FALSE, alt |-> FALSE, shift |-> FALSE]

\* Shortcuts::bind_shortcut(key, k, held): the Key it leaves in key
bind_shortcut(k, held) ==
    IF k.guid # ""
    THEN [guid |-> k.guid,
          \* k.button & ~Qt::KeyboardModifierMask
          keycode |-> k.button.code,
          held |-> held,
          ctrl |-> k.button.ctrl, alt |-> k.button.alt, shift |-> k.button.shift]
    ELSE LET code == key_sequence(k.keycode)
             \* int idx = 0; mods = Qt::NoModifier; from_qt only for a known key
             w == IF code # "Key_unknown" THEN from_qt(code)
                  ELSE [idx |-> 0, ctrl |-> FALSE, alt |-> FALSE, shift |-> FALSE]
         IN  [guid |-> "", keycode |-> w.idx, held |-> held,
              ctrl |-> w.ctrl, alt |-> w.alt, shift |-> w.shift]

\* tt(k, [=](bool flag) { fun(flag); }, held)
binding(kk) ==
    [k |-> bind_shortcut(kk.opts, kk.held), fun |-> kk.fun, held |-> kk.held]

RECURSIVE push_all(_, _, _)
\* for (i = 0; i < sz; i++) keys.push_back(...)
push_all(table, ks, i) ==
    IF i > Len(ks) THEN table
    ELSE push_all(Append(table, binding(ks[i])), ks, i + 1)

\* The mutant of reload_table: the table is not emptied first
reload_table_keep(old, ks) == push_all(old, ks, 1)

\* Shortcuts::reload: keys = std::vector<tt>(), then the loop
reload_table(old, ks) == push_all(<<>>, ks, 1)

reload ==
    /\ \E ks \in KeyLists :
         /\ keys' = reload_table(keys, ks)
         /\ keys_' = ks
    /\ received' = [given |-> FALSE]
    /\ UNCHANGED <<d, loggedVars, mtx, stack, device_specs, pose, data, sessionVars,
                   procVars, ubVars, bindVars>>

\* A key event: the Key that the worker hands to receiver
Key(guid, keycode, ctrl, held) ==
    [guid |-> guid, keycode |-> keycode, ctrl |-> ctrl, alt |-> FALSE,
     shift |-> FALSE, held |-> held]

KeyEvents ==
    {Key("", 30, FALSE, TRUE), Key("", 30, FALSE, FALSE), Key("", 30, TRUE, TRUE),
     Key("joy", 30, TRUE, TRUE), Key("joy", 30, TRUE, FALSE),
     Key("", 0, FALSE, TRUE)}

\* The tests of the loop body of receiver before should_process: none of the
\* `continue`s fires for the binding k_ and the event k
receiver_accepts(k_, k) ==
    /\ ~(k.guid # k_.guid)
    /\ ~(k.keycode # k_.keycode)
    /\ ~(k_.held /\ ~k.held)
    /\ ~(k_.alt # k.alt)
    /\ ~(k_.ctrl # k.ctrl)
    /\ ~(k_.shift # k.shift)

RECURSIVE receiver_calls(_, _, _, _)
\* The loop of receiver from i on: the calls f(k.held) it makes, in order;
\* sp[i] is what k_.should_process() returns for the binding i
receiver_calls(table, k, sp, i) ==
    IF i > Len(table) THEN <<>>
    ELSE IF receiver_accepts(table[i].k, k) /\ sp[i]
    THEN <<[fun |-> table[i].fun, flag |-> k.held]>>
             \o receiver_calls(table, k, sp, i + 1)
    ELSE receiver_calls(table, k, sp, i + 1)

\* Shortcuts::receiver(k)
receiver ==
    /\ \E k \in KeyEvents :
       \E sp \in [1 .. Len(keys) -> BOOLEAN] :
         received' =
            [given |-> TRUE, event |-> k,
             rejected |-> {i \in 1 .. Len(keys) :
                              receiver_accepts(keys[i].k, k) /\ ~sp[i]},
             calls |-> receiver_calls(keys, k, sp, 1)]
    /\ UNCHANGED <<d, keys, keys_, loggedVars, mtx, stack, device_specs, pose, data,
                   sessionVars, procVars, ubVars, bindVars>>

----------------------------------------------------------------------------
(* Specifications *)

Step(t, S, P) ==
    \/ device_list_new(t)
    \/ start_tracker_call(t)
    \/ data_call(t)
    \/ center_call(t)
    \/ with_vr_lock_acquire(t)
    \/ with_vr_lock_init(t)
    \/ with_vr_lock_release(t)
    \/ fill_device_specs_body(t, P)
    \/ steamvr_dialog_return(t)
    \/ get_pose_entry(t)
    \/ get_pose_body(t, P)
    \/ start_tracker_body(t, S)
    \/ start_tracker_select(t)
    \/ QMessageBox_warning(t)
    \/ data_entry(t)
    \/ data_write(t)
    \/ center_body(t)
    \/ center_return(t)

\* Two threads, the hardware and process exit
Init == InitState

Next ==
    \/ \E t \in Threads : Step(t, FewSerials, FewProfiles)
    \/ steamvr_new
    \/ ExitBegin
    \/ RunAtExit

Spec == Init /\ [][Next]_vars

\* One caller and every hardware state
InitHw == InitState

NextHw ==
    \/ Step("poll", SerialInputs, Profiles)
    \/ steamvr_new

SpecHw == InitHw /\ [][NextHw]_vars

\* The sampler on its own: two callers of device_list::get_pose with any index
InitSampler == InitState

NextSampler ==
    \E t \in Threads :
        \/ get_pose_call(t)
        \/ get_pose_entry(t)
        \/ with_vr_lock_acquire(t)
        \/ with_vr_lock_init(t)
        \/ get_pose_body(t, Profiles)
        \/ with_vr_lock_release(t)

SpecSampler == InitSampler /\ [][NextSampler]_vars

\* The enumerator on its own: one owner of a device_list that it refreshes
InitList == InitState

NextList ==
    \/ refresh_device_list("ui")
    \/ with_vr_lock_acquire("ui")
    \/ with_vr_lock_init("ui")
    \/ fill_device_specs_body("ui", Profiles)
    \/ with_vr_lock_release("ui")

SpecList == InitList /\ [][NextList]_vars

\* The shortcuts: reloads and key events, one after the other
InitShortcuts == InitState

NextShortcuts ==
    \/ reload
    \/ receiver

SpecShortcuts == InitShortcuts /\ [][NextShortcuts]_vars

\* The threads of a process that does not exit.  A thread that is inside a
\* call goes on (hardware calls return), and QMutex::lock returns if the
\* mutex stays free; QMutex promises no more than that to a thread that
\* waits, and nothing makes the user close a message box.
Internal(t) ==
    \/ with_vr_lock_init(t)
    \/ with_vr_lock_release(t)
    \/ fill_device_specs_body(t, LiveProfiles)
    \/ steamvr_dialog_return(t)
    \/ get_pose_entry(t)
    \/ get_pose_body(t, LiveProfiles)
    \/ start_tracker_body(t, LiveSerials)
    \/ start_tracker_select(t)
    \/ data_entry(t)
    \/ data_write(t)
    \/ center_body(t)
    \/ center_return(t)

NextLive ==
    \/ \E t \in Threads : Step(t, LiveSerials, LiveProfiles)
    \/ steamvr_new

LiveSpec ==
    /\ Init
    /\ [][NextLive]_vars
    /\ \A t \in Threads : WF_vars(Internal(t))
    /\ \A t \in Threads : WF_vars(with_vr_lock_acquire(t))

----------------------------------------------------------------------------
(* Claims *)

\* The frames of thread t that are past vr_init(): they hold the mutex and
\* the (handle, error) pair they were given
Holding(f) == f.fn # "data" /\ f.pos \in {"body", "select", "box", "unlock"}
InSection(f) ==
    f.fn # "data" /\ f.pos \in {"init", "body", "select", "box", "unlock"}
Depth(t) == 1 .. Len(stack[t])

SerialNotFound == "Can't find device with that serial"
NoDeviceConnected == "No HMD connected"
InitErrors == {o.e : o \in {x \in InitOutcomes : x.v = Null}}

\* C1: VR_Init runs at most once in the process, and every caller that has
\* been through vr_init() holds the same (handle, error) pair, the cached one.
C1_InitOnce ==
    /\ n_init <= 1
    /\ \A t \in Threads : \A i \in Depth(t) :
         Holding(stack[t][i]) =>
             /\ t_static.tried
             /\ stack[t][i].v = t_static.v
             /\ stack[t][i].e = t_static.e

\* Two callers at once: one inside start_tracker's nested enumeration with
\* the pair in both of its frames, the other waiting for the mutex
C1_Witness ==
    /\ n_init = 1
    /\ \E t, u \in Threads :
         /\ t # u
         /\ At(t, "fill", "body") /\ stack[t][1].fn = "start"
         /\ AtPos(u, "lock")

\* C2: a failed initialisation is cached for good: once the attempt has
\* failed the static never changes, VR_Init does not run again and every
\* caller is given the null handle with the error of that attempt; at all
\* times the cached handle is non-null exactly if the attempt succeeded.
C2_FailureCached ==
    /\ [](t_static.tried =>
            (t_static.v # Null <=> t_static.e = "VRInitError_None"))
    /\ [][(t_static.tried /\ t_static.v = Null) =>
            /\ t_static' = t_static
            /\ n_init' = n_init
            /\ \A t \in Threads :
                 (AtPos(t, "init") /\ stack'[t] # stack[t]) =>
                     LET f == stack'[t][Len(stack'[t])]
                     IN  f.v = Null /\ f.e = t_static.e]_vars

\* A call made after a start_tracker that reported the failure is given the
\* null handle again
C2_Witness ==
    /\ t_static.tried /\ t_static.v = Null /\ n_init = 1
    /\ warning = t_static.e
    /\ \E t \in Threads : At(t, "center", "body") /\ Top(t).v = Null

\* C3: a thread is at a hardware call (VR_Init in vr_init, the queries of
\* the lambdas, ResetSeatedZeroPose) only while it owns the mutex, with one
\* level of ownership per with_vr_lock it is in; so no two threads are at
\* hardware calls at once.
C3_HardwareUnderLock ==
    /\ \A t \in Threads :
         LET n == Cardinality({i \in Depth(t) : InSection(stack[t][i])})
         IN  n > 0 => mtx.owner = t /\ mtx.depth = n
    /\ \A t, u \in Threads :
         (t # u /\ \E i \in Depth(t) : InSection(stack[t][i]))
             => ~\E j \in Depth(u) : InSection(stack[u][j])

\* One thread is at the pose query while the other waits for the mutex
C3_Witness ==
    \E t, u \in Threads :
        /\ t # u
        /\ At(t, "get_pose", "body") /\ Top(t).v # Null
        /\ AtPos(u, "lock")

\* C4: the mutex is recursive and is given back: a thread that is idle owns
\* nothing; every call that has started comes to its end when the hardware
\* calls return (also start_tracker, which takes the mutex a second time for
\* its device_list); and a thread that waits for the mutex gets it.
C4_ReentrantLive ==
    /\ [](\A t \in Threads : Idle(t) => mtx.owner # t)
    /\ \A t \in Threads : (~Idle(t)) ~> Idle(t)
    /\ \A t \in Threads : AtPos(t, "lock") ~> (mtx.owner = t)

\* C5: no hardware call goes through the handle after VR_Shutdown has
\* released the runtime.
C5_NoUseAfterShutdown == ~uas

\* C6: std::atexit(VR_Shutdown) has run once if the initialisation succeeded
\* and never if it failed or has not been tried; VR_Shutdown runs at most
\* once, and only as a step of process exit, never as a step of a caller.
C6_ShutdownHook ==
    /\ [](/\ n_atexit = (IF t_static.tried /\ t_static.v # Null THEN 1 ELSE 0)
          /\ n_shutdown <= 1
          /\ released <=> n_shutdown = 1
          /\ atexit_hooks + n_shutdown = n_atexit)
    /\ [][(n_shutdown' # n_shutdown \/ released' # released) =>
            (proc = "exiting" /\ stack' = stack /\ mtx' = mtx)]_vars

\* The runtime was initialised, the process exits, the one hook has run
C6_Witness ==
    /\ n_atexit = 1 /\ n_shutdown = 1 /\ released /\ atexit_hooks = 0
    /\ proc = "exiting"

\* The places in specs of the devices whose identity string is serial
Matches(specs, serial) ==
    {i \in 1 .. Len(specs) : serial = to_string(specs[i])}

Least(S) == CHOOSE i \in S : \A j \in S : i <= j

\* No data() is sampling: no get_pose is in progress and none has returned
\* to a data() that has yet to store its result
NotSampling ==
    \A t \in Threads : \A i \in Depth(t) :
        /\ stack[t][i].fn # "get_pose"
        /\ ~(stack[t][i].fn = "data" /\ stack[t][i].pos = "write")

\* C7: when the lambda of fill_device_specs is done, every device of the list
\* is a slot that the hardware state it read reports connected and of a
\* class other than Invalid and TrackingReference; with a null handle the
\* list is empty and the hardware was not read.
C7_ListedConnectedTrackable ==
    \A t \in Threads :
        At(t, "fill", "unlock") =>
            IF Top(t).v = Null
            THEN d[t] = <<>> /\ ~Top(t).hwframe.read
            ELSE /\ Top(t).hwframe.read
                 /\ \A i \in 1 .. Len(d[t]) :
                      LET p == Top(t).hwframe.slots[d[t][i].k]
                      IN  /\ p.connected
                          /\ p.class \notin {"Invalid", "TrackingReference"}

\* An enumeration that lists a device and leaves out a slot only because it
\* is not connected, and one only because of its class
C7_Witness ==
    \E t \in Threads :
        /\ At(t, "fill", "unlock")
        /\ Top(t).v # Null
        /\ Len(d[t]) = 1
        /\ \E k \in Slots : Top(t).hwframe.slots[k] \in {P_hmd_off, P_ghost}

\* C8: when start_tracker has worked through a non-empty device list (the
\* handle is not null), an empty serial leaves in device_index the slot of
\* the first device of the list, and a serial that is the identity string of
\* a listed device leaves the slot of the first such device; no message is
\* shown (the tracker is bound).
C8_BindsFirstMatch ==
    \A t \in Threads :
        (At(t, "start", "unlock") /\ Top(t).v # Null /\ Len(d[t]) > 0)
        => LET specs == d[t]
               serial == Top(t).serial
           IN  /\ serial = <<>> =>
                    device_index = specs[1].k /\ warning = None
               /\ (serial # <<>> /\ Matches(specs, serial) # {}) =>
                    /\ device_index = specs[Least(Matches(specs, serial))].k
                    /\ warning = None

\* The device asked for by its identity string is the only listed one and is
\* in slot 1: its slot is stored, not its place in the list
C8_Witness ==
    \E t \in Threads :
        /\ At(t, "start", "unlock")
        /\ Top(t).serial # <<>>
        /\ Len(d[t]) = 1
        /\ Matches(d[t], Top(t).serial) # {}
        /\ device_index = 1
        /\ warning = None

\* C9: a start_tracker with a non-empty serial that is the identity string
\* of none of the devices it lists (the list is not empty) shows "Can't find
\* device with that serial" and leaves device_index at -1; and afterwards,
\* for as long as that tracker lives, no step of an operation on it binds it
\* or samples: device_index stays -1, no get_pose is made for data() and
\* nothing is stored.  Only the construction of a new tracker (a step that
\* clears the message and is no step of a call) ends this.
C9_SerialNotFound ==
    /\ [](\A t \in Threads :
            (/\ At(t, "start", "unlock")
             /\ Top(t).v # Null
             /\ Len(d[t]) > 0
             /\ Top(t).serial # <<>>
             /\ Matches(d[t], Top(t).serial) = {})
            => warning = SerialNotFound /\ device_index = -1)
    /\ [](warning = SerialNotFound => device_index = -1 /\ NotSampling)
    /\ [][(warning = SerialNotFound /\ ~(stack' = stack /\ warning' = None)) =>
            device_index' = -1 /\ data' = data /\ pose' = pose]_vars

\* C10: a start_tracker that was given the null handle shows the init error
\* and has made no device list; one that found an empty list shows "No HMD
\* connected"; after either, device_index is -1 and data() samples nothing.
C10_StartFailures ==
    /\ \A t \in Threads :
         At(t, "start", "unlock") =>
             /\ Top(t).v = Null =>
                  /\ warning = Top(t).e /\ warning \in InitErrors
                  /\ d[t] = <<>> /\ Top(t).serial = Unread
                  /\ device_index = -1
             /\ (Top(t).v # Null /\ d[t] = <<>>) =>
                  warning = NoDeviceConnected /\ device_index = -1
    /\ warning \in InitErrors \cup {NoDeviceConnected} =>
         device_index = -1 /\ NotSampling

\* The output array before any sample was stored
DataInit == [TX |-> 7, TY |-> 7, TZ |-> 7, Yaw |-> 7, Pitch |-> 7, Roll |-> 7]

\* C11: what get_pose hands to data() is ok exactly if the pose it read has
\* both bPoseIsValid and bDeviceIsConnected; a data() that got a pose that is
\* not ok leaves all six entries of the array as they were, one that got an
\* ok pose stores all six (the translation times c, the angles of the
\* matrix); and the array changes in no other step.
C11_NoPartialOverwrite ==
    /\ [](\A t \in Threads :
            (At(t, "get_pose", "unlock") /\ stack[t][1].fn = "data") =>
                LET p == Top(t).hwframe.pose
                IN  /\ pose[t].ok <=> (p.valid /\ p.connected)
                    /\ pose[t].ok => pose[t].mat = p.mat)
    /\ [][\A t \in Threads :
            (At(t, "data", "write") /\ stack'[t] # stack[t]) =>
                IF pose[t].ok
                THEN LET m == pose[t].mat
                     IN  /\ data'.TX = -m[1][4] * 10
                         /\ data'.TY = m[2][4] * 10
                         /\ data'.TZ = m[3][4] * 10
                         /\ data'.Yaw = matrix_to_euler(m).yaw
                         /\ data'.Pitch = matrix_to_euler(m).pitch
                         /\ data'.Roll = matrix_to_euler(m).roll
                ELSE data' = data]_vars
    /\ [][data' # data => \E t \in Threads : At(t, "data", "write")]_vars

\* A sample was stored earlier, and data() now holds a pose that is valid
\* but of a device that is not connected: it is about to store nothing
C11_Witness ==
    /\ data # DataInit
    /\ device_index # -1
    /\ \E t \in Threads :
         /\ At(t, "get_pose", "unlock")
         /\ stack[t][1].fn = "data"
         /\ Top(t).hwframe.pose.valid /\ ~Top(t).hwframe.pose.connected
         /\ ~pose[t].ok

\* C12: no step of a center() changes device_index or the message of the
\* binding; the lambda has called ResetSeatedZeroPose exactly if the handle
\* it was given is not null; and center() returns true (so also on every
\* call that issued the command).
C12_RecenterKeepsBinding ==
    /\ [][(\E t \in Threads : ~Idle(t) /\ stack[t][1].fn = "center") =>
            (device_index' = device_index /\ warning' = warning)]_vars
    /\ [](\A t \in Threads :
            (At(t, "center", "unlock") \/ At(t, "center", "return")) =>
                (Top(t).hwframe.read <=> Top(t).v # Null))
    /\ [][\A t \in Threads :
            (At(t, "center", "return") /\ stack'[t] # stack[t]) =>
                center_ret' = <<TRUE>>]_vars

\* A bound tracker: center() has issued the command and is about to return,
\* after an earlier center() has returned
C12_Witness ==
    /\ device_index # -1
    /\ center_ret = <<TRUE>>
    /\ \E t \in Threads :
         At(t, "center", "return") /\ Top(t).hwframe.read /\ Top(t).v # Null

\* C13: once a start_tracker has completed on a tracker (the tracker is
\* bound or has shown its message), no step of any operation on it changes
\* device_index or the message again.  A step that changes the stack is a
\* step of an operation; the construction of a new tracker is not.
C13_TerminalStates ==
    [][((device_index # -1 \/ warning # None) /\ stack' # stack) =>
          (device_index' = device_index /\ warning' = warning)]_vars

\* C14: a get_pose that was given the null handle makes no hardware call
\* (no call goes through a null handle) and returns (false, pose_t{}).
C14_NullHandleSample ==
    /\ ~nullderef
    /\ \A t \in Threads :
         (At(t, "get_pose", "unlock") /\ Top(t).v = Null) =>
             (~Top(t).hwframe.read /\ pose[t] = NoPose)

\* C15: a get_pose with k < 0 or k >= max_devices returns (false, pose_t{})
\* in its first step: the caller is done, the mutex, the static of vr_init
\* and the counts of VR_Init and atexit are as before, and no hardware call
\* was made.
C15_OutOfRangeSample ==
    [][\A t \in Threads :
         (/\ At(t, "get_pose", "entry")
          /\ (Top(t).k < 0 \/ Top(t).k >= max_devices)
          /\ stack'[t] # stack[t])
         => /\ stack'[t] = SubSeq(stack[t], 1, Len(stack[t]) - 1)
            /\ pose'[t] = NoPose
            /\ mtx' = mtx
            /\ t_static' = t_static /\ n_init' = n_init /\ n_atexit' = n_atexit
            /\ uas' = uas /\ nullderef' = nullderef]_vars

\* Nothing is initialised yet; a caller that got a valid pose before is at
\* the start of get_pose(max_devices) while the other caller holds the mutex
C15_Witness ==
    \E t, u \in Threads :
        /\ t # u
        /\ At(t, "get_pose", "entry") /\ Top(t).k = max_devices
        /\ pose[t].ok
        /\ mtx.owner = u

\* C16: the diagnostic of get_pose is emitted by a sample exactly if its
\* pose is not valid or not connected and its condition (slot, validity,
\* connectivity) is not that of the sample before it: not again while the
\* condition stays, and again once it has changed (another condition, or a
\* valid pose in between).  The sample before it was valid (last_valid), or
\* it was handed to once_only with the condition last_logged.
C16_DiagnosticThrottled ==
    [][\A t \in Threads :
          (/\ At(t, "get_pose", "body")
           /\ stack'[t] # stack[t])
          => LET f == stack'[t][Len(stack'[t])]
                 p == f.hwframe.pose
                 cond == <<f.k, p.valid, p.connected>>
                 invalid == ~p.valid \/ ~p.connected
             IN  f.hwframe.logged <=>
                     (invalid /\ (last_valid \/ last_logged # cond))]_vars

\* The slots of the hardware state h that get through the four tests
Passing(h) ==
    {k \in Slots :
        /\ h[k].class \notin {"Invalid", "TrackingReference"}
        /\ h[k].connected
        /\ h[k].serial # <<>>
        /\ h[k].model # <<>>}

\* C17: with a handle that is not null, the list that fill_device_specs
\* leaves holds exactly the slots that get through the four tests in the
\* hardware state it read, each once and in ascending order of slot, also
\* those above a slot whose serial or model could not be fetched, and
\* nothing of what the list held before.
C17_ExactList ==
    \A t \in Threads :
        ((At(t, "refresh", "unlock") \/ At(t, "fill", "unlock")) /\ Top(t).v # Null)
        => LET h == Top(t).hwframe.slots
               specs == IF Top(t).fn = "fill" THEN d[t] ELSE device_specs[t]
           IN  /\ {specs[i].k : i \in 1 .. Len(specs)} = Passing(h)
               /\ Len(specs) = Cardinality(Passing(h))
               /\ \A i, j \in 1 .. Len(specs) : i < j => specs[i].k < specs[j].k
               /\ \A i \in 1 .. Len(specs) :
                    /\ specs[i].serial = h[specs[i].k].serial
                    /\ specs[i].model = h[specs[i].k].model

\* Slot 0 is a device whose serial cannot be fetched, slot 1 is listed
C17_Witness ==
    \E t \in Threads :
        /\ At(t, "refresh", "unlock")
        /\ Top(t).v # Null
        /\ Top(t).hwframe.slots[0] = P_noserial
        /\ Len(device_specs[t]) = 1
        /\ device_specs[t][1].k = 1

\* Thread t is in a device_list of its own (the constructor or a refresh,
\* not the one inside start_tracker)
Listing(t) == ~Idle(t) /\ stack[t][1].fn \in {"dialog", "refresh"}

\* C18 as stated: no step of a device_list() changes the static of vr_init
\* (handle, error, initialised), in whatever state it is called.
C18_AsStated ==
    [][\A t \in Threads :
         (Listing(t) /\ stack'[t] # stack[t]) => t_static' = t_static]_vars

\* C18, amended: once vr_init() has been through its initialisation, no step
\* of a device_list() changes the static, nor runs VR_Init or atexit; a
\* device_list() that comes first changes it only in its vr_init() step,
\* which sets it once.
C18_ListKeepsSession ==
    [][\A t \in Threads :
         (Listing(t) /\ stack'[t] # stack[t]) =>
             IF t_static.tried
             THEN t_static' = t_static /\ n_init' = n_init /\ n_atexit' = n_atexit
             ELSE \/ t_static' = t_static
                  \/ AtPos(t, "init") /\ t_static'.tried /\ n_init' = 1]_vars

\* A device_list() is done with its enumeration in a process in which an
\* earlier center() has returned: the initialisation was made before it
C18_Witness ==
    /\ center_ret = <<TRUE>>
    /\ t_static.tried
    /\ \E t \in Threads : At(t, "fill", "unlock") /\ stack[t][1].fn = "dialog"

\* C19: device_index is -1 or a slot in 0 .. max_devices - 1, and if it is
\* not -1 then vr_init() has been through a successful initialisation; so a
\* get_pose called by data() has an index in range and, in its lambda, a
\* handle that is not null, and no call goes through a null handle.
C19_IndexInvariant ==
    /\ device_index = -1 \/ (0 <= device_index /\ device_index < max_devices)
    /\ device_index # -1 => (t_static.tried /\ t_static.v # Null)
    /\ \A t \in Threads : \A i \in Depth(t) :
         (stack[t][i].fn = "get_pose" /\ stack[t][1].fn = "data") =>
             /\ 0 <= stack[t][i].k /\ stack[t][i].k < max_devices
             /\ stack[t][i].pos \in {"body", "unlock"} => stack[t][i].v # Null
    /\ ~nullderef

\* data() is at the pose query for the highest slot
C19_Witness ==
    /\ device_index = max_devices - 1
    /\ \E t \in Threads :
         /\ At(t, "get_pose", "body")
         /\ stack[t][1].fn = "data"
         /\ Top(t).k = max_devices - 1
         /\ Top(t).v # Null

\* The bindings of the list ks that the event k is for: guid, keycode and
\* the modifiers are those of the event, and a binding that is for a held
\* key gets only a held event
ForEvent(ks, k) ==
    {i \in 1 .. Len(ks) :
        LET b == bind_shortcut(ks[i].opts, ks[i].held)
        IN  /\ b.guid = k.guid /\ b.keycode = k.keycode
            /\ b.ctrl = k.ctrl /\ b.alt = k.alt /\ b.shift = k.shift
            /\ (ks[i].held => k.held)}

\* The table is the list of the last reload: as long, entry for entry the
\* callback and the held flag of the list
TableIsList ==
    /\ Len(keys) = Len(keys_)
    /\ \A i \in 1 .. Len(keys) :
         /\ keys[i].fun = keys_[i].fun
         /\ keys[i].held = keys_[i].held
         /\ keys[i].k.held = keys_[i].held

\* The callbacks called for the last event are those of the entries idx of
\* the list of the last reload, once each and in the order of the list
CallsAre(idx) ==
    /\ Len(received.calls) = Cardinality(idx)
    /\ \A n \in 1 .. Len(received.calls) :
         \E i \in idx :
            /\ Cardinality({j \in idx : j < i}) = n - 1
            /\ received.calls[n] = [fun |-> keys_[i].fun, flag |-> received.event.held]

\* C20 as stated: the table is the list of the last reload, entry for entry,
\* and a key event calls exactly the callbacks of the entries of that list
\* whose guid, keycode, ctrl, alt and shift are the event's and whose held
\* flag does not ask for a held event that is absent.
C20_AsStated ==
    /\ TableIsList
    /\ received.given => CallsAre(ForEvent(keys_, received.event))

\* C20, amended: as stated, but of the entries that the event is for only
\* those are called whose should_process() accepts the event.
C20_ReloadReplaces ==
    /\ TableIsList
    /\ received.given =>
         CallsAre(ForEvent(keys_, received.event) \ received.rejected)

\* After a reload with two entries for the key A (one of them for a held
\* key only), a held event of A calls both f and g
C20_Witness ==
    /\ Len(keys_) = 2
    /\ keys_[1].fun = "g" /\ keys_[1].held
    /\ keys_[2].fun = "f" /\ ~keys_[2].held
    /\ received.given
    /\ received.event = Key("", 30, FALSE, TRUE)
    /\ received.calls = <<[fun |-> "g", flag |-> TRUE], [fun |-> "f", flag |-> TRUE]>>

====
